---- MODULE Spec2Model ----
(***************************************************************************)
(* Monitor-topology reconciliation of the RDP backend                      *)
(* (libweston/backend-rdp/rdpdisp.c).                                      *)
(*                                                                         *)
(* The three wl_lists of struct monitor_private are sequences of head      *)
(* records, front of the list first.  A float is held in hundredths        *)
(* (clientScale 1.5f is 150).  The layout handler runs on the compositor   *)
(* thread as one call; the model cuts it at its function calls             *)
(* (validate+start, one disp_set_monitor_layout_change per monitor, end)   *)
(* so that the lists can be observed inside a transaction.                 *)
(***************************************************************************)
EXTENDS Integers, Sequences, FiniteSets, TLC

(* ---------------- bounds of the model ---------------- *)

\* largest monitor_count of a layout message
MaxMonitors == 2

\* head_index stops growing here: a message that would need more heads is not sent
MaxHeadIndex == 3

\* allocations (in rdp_head_create) that fail in one run
MaxAllocFailures == 1

\* layout messages that arrive in one run of the task queue
MaxTasks == 3

\* server configurations (struct rdp_output_handler_config)
Configs ==
    { [enable_hi_dpi_support |-> FALSE, debug_desktop_scaling_factor |-> 0,
       enable_fractional_hi_dpi_support |-> FALSE, enable_fractional_hi_dpi_roundup |-> FALSE],
      [enable_hi_dpi_support |-> TRUE, debug_desktop_scaling_factor |-> 0,
       enable_fractional_hi_dpi_support |-> FALSE, enable_fractional_hi_dpi_roundup |-> FALSE] }

\* server configurations of the second specification: hi-dpi off, on, on with
\* fractional scales, on with round-up, on with the debug override at 150%,
\* off with that override, on with fractional scales and round-up together
LayoutConfigs ==
    Configs \cup
    { [enable_hi_dpi_support |-> TRUE, debug_desktop_scaling_factor |-> 0,
       enable_fractional_hi_dpi_support |-> TRUE, enable_fractional_hi_dpi_roundup |-> FALSE],
      [enable_hi_dpi_support |-> TRUE, debug_desktop_scaling_factor |-> 0,
       enable_fractional_hi_dpi_support |-> FALSE, enable_fractional_hi_dpi_roundup |-> TRUE],
      [enable_hi_dpi_support |-> TRUE, debug_desktop_scaling_factor |-> 150,
       enable_fractional_hi_dpi_support |-> FALSE, enable_fractional_hi_dpi_roundup |-> FALSE],
      [enable_hi_dpi_support |-> FALSE, debug_desktop_scaling_factor |-> 150,
       enable_fractional_hi_dpi_support |-> FALSE, enable_fractional_hi_dpi_roundup |-> FALSE],
      [enable_hi_dpi_support |-> TRUE, debug_desktop_scaling_factor |-> 0,
       enable_fractional_hi_dpi_support |-> TRUE, enable_fractional_hi_dpi_roundup |-> TRUE] }

(* ---------------- data ---------------- *)

\* rdpMonitor as received: geometry in client space, primary flag, DPI attribute.
\* physicalWidth/Height, orientation and deviceScaleFactor are carried along
\* unchanged by every function below and are left out.
Monitor(x, y, p, d) ==
    [x |-> x, y |-> y, width |-> 2, height |-> 2, is_primary |-> p, desktopScaleFactor |-> d]

\* the monitors a client may send, on a 2x2 grid of 2x2 cells: a primary at
\* the origin at 100% and at 200%, a primary off the origin, secondaries right
\* of, below, diagonal to and on top of the origin
rdpMonitor ==
    { Monitor(0, 0, TRUE, 100), Monitor(0, 0, TRUE, 200), Monitor(2, 0, TRUE, 100),
      Monitor(2, 0, FALSE, 100), Monitor(0, 2, FALSE, 100), Monitor(2, 2, FALSE, 100),
      Monitor(0, 0, FALSE, 100) }

\* a layout message: monitor_count >= 1 monitors in the order the client lists them
Messages == UNION { [1..n -> rdpMonitor] : n \in 1..MaxMonitors }

\* pixman_rectangle32_t
Rect(x, y, w, h) == [x |-> x, y |-> y, width |-> w, height |-> h]

\* rectWeston of a mode before the projection has written it (xmalloc'ed memory
\* that is always assigned before it is read)
NoRect == Rect(0, 0, 0, 0)

\* head->base.output == NULL
NoOutput == [bound |-> FALSE, scale |-> 0, x |-> 0, y |-> 0, width |-> 0, height |-> 0]

(* ---------------- arithmetic of C ---------------- *)

Abs(n) == IF n < 0 THEN -n ELSE n

\* int / int of C for a divisor > 0: the quotient is truncated toward zero
TruncDiv(a, b) == IF a >= 0 THEN a \div b ELSE -((-a) \div b)

\* a / b as the code executes it.  b = 0 is undefined behaviour: the build
\* either traps (SIGFPE, decided by the caller) or yields a value, taken as 0.
CDiv(a, b) == IF b = 0 THEN 0 ELSE TruncDiv(a, b)

(* ---------------- the C library ---------------- *)

\* The build: whether qsort of the C library orders an array when the
\* comparator answers 0 and 1 only (compare_monitors_x, compare_monitors_y).
\* The C standard leaves the result of qsort with such a comparator open.
VARIABLE qsort_sorts

\* the array after qsort: ordered, or as it was
qsort(array, ordered) == IF qsort_sorts THEN ordered ELSE array

(* ---------------- ScaleResolver ---------------- *)

\* disp_get_client_scale_from_monitor with the debug override tested before
\* enable_hi_dpi_support
ScaleDebugOverrideFirst(cfg, monitorDef) ==
    IF cfg.debug_desktop_scaling_factor # 0
    THEN cfg.debug_desktop_scaling_factor
    ELSE IF cfg.enable_hi_dpi_support
    THEN IF cfg.enable_fractional_hi_dpi_support
         THEN monitorDef.desktopScaleFactor
         ELSE IF cfg.enable_fractional_hi_dpi_roundup
         THEN 100 * ((monitorDef.desktopScaleFactor + 50) \div 100)
         ELSE 100 * (monitorDef.desktopScaleFactor \div 100)
    ELSE 100

\* clientScale in hundredths
disp_get_client_scale_from_monitor(cfg, monitorDef) ==
    IF cfg.enable_hi_dpi_support
    THEN IF cfg.debug_desktop_scaling_factor # 0
         THEN cfg.debug_desktop_scaling_factor
         ELSE IF cfg.enable_fractional_hi_dpi_support
         THEN monitorDef.desktopScaleFactor
         ELSE IF cfg.enable_fractional_hi_dpi_roundup
         THEN 100 * ((monitorDef.desktopScaleFactor + 50) \div 100)
         ELSE 100 * (monitorDef.desktopScaleFactor \div 100)
    ELSE 100

\* (int) of the float: truncation
disp_get_output_scale_from_monitor(cfg, monitorDef) ==
    disp_get_client_scale_from_monitor(cfg, monitorDef) \div 100

\* struct rdp_monitor_mode as the handler fills it before validation
rdp_monitor_mode(cfg, monitorDef) ==
    [x |-> monitorDef.x, y |-> monitorDef.y,
     width |-> monitorDef.width, height |-> monitorDef.height,
     is_primary |-> monitorDef.is_primary,
     desktopScaleFactor |-> monitorDef.desktopScaleFactor,
     scale |-> disp_get_output_scale_from_monitor(cfg, monitorDef),
     clientScale |-> disp_get_client_scale_from_monitor(cfg, monitorDef),
     rectWeston |-> NoRect]

(* ---------------- TopologyValidator ---------------- *)

is_line_intersected(l1, l2, r1, r2) ==
    LET l == IF l1 > r1 THEN l1 ELSE r1
        r == IF l2 < r2 THEN l2 ELSE r2
    IN  l < r

\* CheckPrimary with the count tested before it is incremented
\* (primaryCount++ > 1): a second primary passes
RECURSIVE CheckPrimaryPostIncrement(_, _, _)
CheckPrimaryPostIncrement(mm, i, primaryCount) ==
    IF i > Len(mm) THEN "ok"
    ELSE IF mm[i].is_primary
         THEN IF primaryCount > 1 THEN "PrimaryCountInvalid"
              ELSE IF mm[i].x # 0 \/ mm[i].y # 0 THEN "PrimaryNotAtOrigin"
              ELSE CheckPrimaryPostIncrement(mm, i + 1, primaryCount + 1)
         ELSE CheckPrimaryPostIncrement(mm, i + 1, primaryCount)

\* CheckPrimary with the origin test joined by && (x != 0 && y != 0):
\* a primary off the origin on one axis only passes
RECURSIVE CheckPrimaryBothAxes(_, _, _)
CheckPrimaryBothAxes(mm, i, primaryCount) ==
    IF i > Len(mm) THEN "ok"
    ELSE IF mm[i].is_primary
         THEN IF primaryCount + 1 > 1 THEN "PrimaryCountInvalid"
              ELSE IF mm[i].x # 0 /\ mm[i].y # 0 THEN "PrimaryNotAtOrigin"
              ELSE CheckPrimaryBothAxes(mm, i + 1, primaryCount + 1)
         ELSE CheckPrimaryBothAxes(mm, i + 1, primaryCount)

\* the primary checks of the first loop, in array order:
\* "ok", or the error that makes the function return FALSE
RECURSIVE CheckPrimary(_, _, _)
CheckPrimary(mm, i, primaryCount) ==
    IF i > Len(mm) THEN "ok"
    ELSE IF mm[i].is_primary
         THEN IF primaryCount + 1 > 1 THEN "PrimaryCountInvalid"
              ELSE IF mm[i].x # 0 \/ mm[i].y # 0 THEN "PrimaryNotAtOrigin"
              ELSE CheckPrimary(mm, i + 1, primaryCount + 1)
         ELSE CheckPrimary(mm, i + 1, primaryCount)

RECURSIVE UpperLeftX(_, _)
UpperLeftX(mm, i) ==
    IF i > Len(mm) THEN 0
    ELSE LET rest == UpperLeftX(mm, i + 1)
         IN  IF mm[i].x < rest THEN mm[i].x ELSE rest

RECURSIVE UpperLeftY(_, _)
UpperLeftY(mm, i) ==
    IF i > Len(mm) THEN 0
    ELSE LET rest == UpperLeftY(mm, i + 1)
         IN  IF mm[i].y < rest THEN mm[i].y ELSE rest

\* qsort with compare_monitors_x.  The comparator answers 1 for "greater" and
\* 0 otherwise, never a negative number, which qsort does not allow.  A merge
\* sort that takes the left element unless the answer is > 0 then orders by x
\* and keeps the input order of monitors with equal x (this operator); a sort
\* that moves an element only on a negative answer leaves the array as it is
\* (qsort above).
RECURSIVE InsertByX(_, _)
InsertByX(sorted, m) ==
    IF sorted = <<>> THEN <<m>>
    ELSE IF Head(sorted).x > m.x THEN <<m>> \o sorted
         ELSE <<Head(sorted)>> \o InsertByX(Tail(sorted), m)

RECURSIVE compare_monitors_x(_)
compare_monitors_x(mm) ==
    IF mm = <<>> THEN <<>>
    ELSE InsertByX(compare_monitors_x(SubSeq(mm, 1, Len(mm) - 1)), mm[Len(mm)])

RECURSIVE InsertByY(_, _)
InsertByY(sorted, m) ==
    IF sorted = <<>> THEN <<m>>
    ELSE IF Head(sorted).y > m.y THEN <<m>> \o sorted
         ELSE <<Head(sorted)>> \o InsertByY(Tail(sorted), m)

RECURSIVE compare_monitors_y(_)
compare_monitors_y(mm) ==
    IF mm = <<>> THEN <<>>
    ELSE InsertByY(compare_monitors_y(SubSeq(mm, 1, Len(mm) - 1)), mm[Len(mm)])

\* the loop "check if monitors are horizontally connected each other":
\* TRUE iff it ends with i == monitorCount
RECURSIVE ConnectedH(_, _, _)
ConnectedH(mm, i, offsetFromOriginClient) ==
    IF i > Len(mm) THEN TRUE
    ELSE IF offsetFromOriginClient # mm[i].x THEN FALSE
    ELSE IF ~is_line_intersected(mm[i-1].y, mm[i-1].y + mm[i-1].height,
                                 mm[i].y, mm[i].y + mm[i].height) THEN FALSE
    ELSE ConnectedH(mm, i + 1, offsetFromOriginClient + mm[i].width)

RECURSIVE ConnectedV(_, _, _)
ConnectedV(mm, i, offsetFromOriginClient) ==
    IF i > Len(mm) THEN TRUE
    ELSE IF offsetFromOriginClient # mm[i].y THEN FALSE
    ELSE IF ~is_line_intersected(mm[i-1].x, mm[i-1].x + mm[i-1].width,
                                 mm[i].x, mm[i].x + mm[i].width) THEN FALSE
    ELSE ConnectedV(mm, i + 1, offsetFromOriginClient + mm[i].height)

(* ---------------- LayoutProjector ---------------- *)

\* the loop of the branch "isScalingUsed && isScalingSupported"
RECURSIVE ProjectScaled(_, _, _, _, _, _)
ProjectScaled(mm, i, offsetFromOriginWeston, isConnected_H, upperLeftX, upperLeftY) ==
    IF i > Len(mm) THEN <<>>
    ELSE LET m == mm[i]
             w == CDiv(m.width, m.scale)
             h == CDiv(m.height, m.scale)
             r == IF isConnected_H
                  THEN Rect(offsetFromOriginWeston,
                            Abs(CDiv(upperLeftY - m.y, m.scale)), w, h)
                  ELSE Rect(Abs(CDiv(upperLeftX - m.x, m.scale)),
                            offsetFromOriginWeston, w, h)
             next == offsetFromOriginWeston + (IF isConnected_H THEN w ELSE h)
         IN  <<[m EXCEPT !.rectWeston = r]>>
             \o ProjectScaled(mm, i + 1, next, isConnected_H, upperLeftX, upperLeftY)

\* ProjectUnscaled without the reset of scale and clientScale
ProjectUnscaledKeepsScale(mm, upperLeftX, upperLeftY) ==
    [i \in 1..Len(mm) |->
        [mm[i] EXCEPT !.rectWeston = Rect(mm[i].x + Abs(upperLeftX),
                                          mm[i].y + Abs(upperLeftY),
                                          mm[i].width, mm[i].height)]]

\* the fallback branch: no scaling, or placement too complex to scale
ProjectUnscaled(mm, upperLeftX, upperLeftY) ==
    [i \in 1..Len(mm) |->
        [mm[i] EXCEPT !.rectWeston = Rect(mm[i].x + Abs(upperLeftX),
                                          mm[i].y + Abs(upperLeftY),
                                          mm[i].width, mm[i].height),
                      !.scale = 1,
                      !.clientScale = 100]]

\* disp_monitor_validate_and_compute_layout.  The result is
\*   status "rejected": the function returned FALSE (error names the reason),
\*   status "assert":   an assert() of the function failed,
\*   status "fpe":      the projection divided by a scale of 0 and trapped,
\*   status "ok":       the function returned TRUE; modes is the array as it
\*                      leaves it (sorted, projected).
\*   trap says what the undefined division by 0 does in this build.
disp_monitor_validate_and_compute_layout(monitorMode, trap) ==
    LET primary == CheckPrimary(monitorMode, 1, 0)
        isScalingUsed == \E i \in 1..Len(monitorMode) : monitorMode[i].clientScale # 100
        upperLeftX == UpperLeftX(monitorMode, 1)
        upperLeftY == UpperLeftY(monitorMode, 1)
        byX == qsort(monitorMode, compare_monitors_x(monitorMode))
        byY == qsort(byX, compare_monitors_y(byX))
        multi == Len(monitorMode) > 1
        isConnected_H == IF multi THEN ConnectedH(byX, 2, byX[1].x + byX[1].width) ELSE TRUE
        isConnected_V == multi /\ ~isConnected_H
                         /\ ConnectedV(byY, 2, byY[1].y + byY[1].height)
        sorted == IF ~multi THEN monitorMode ELSE IF isConnected_H THEN byX ELSE byY
        arrangement == IF isConnected_H THEN "Horizontal"
                       ELSE IF isConnected_V THEN "Vertical" ELSE "Complex"
        isScalingSupported == ~(isScalingUsed /\ ~isConnected_H /\ ~isConnected_V)
        scaled == isScalingUsed /\ isScalingSupported
        out == IF scaled
               THEN ProjectScaled(sorted, 1, 0, isConnected_H, upperLeftX, upperLeftY)
               ELSE ProjectUnscaled(sorted, upperLeftX, upperLeftY)
        Result(s, e, a, o) == [status |-> s, error |-> e, arrangement |-> a, modes |-> o]
    IN  IF primary # "ok" THEN Result("rejected", primary, "none", monitorMode)
        ELSE IF multi /\ upperLeftX # byX[1].x
             THEN Result("assert", "upperLeftX == monitorMode[0].monitorDef.x", "none", byX)
        ELSE IF multi /\ ~isConnected_H /\ upperLeftY # byY[1].y
             THEN Result("assert", "upperLeftY == monitorMode[0].monitorDef.y", "none", byY)
        ELSE IF scaled /\ trap /\ \E i \in 1..Len(sorted) : sorted[i].scale = 0
             THEN Result("fpe", "division by zero", arrangement, sorted)
        ELSE IF \E i \in 1..Len(out) : out[i].rectWeston.x < 0 \/ out[i].rectWeston.y < 0
             THEN Result("assert", "rectWeston >= 0", arrangement, out)
        ELSE Result("ok", "none", arrangement, out)

(* ---------------- HeadRegistry ---------------- *)

VARIABLES
    config,                  \* the enable_* / debug_* fields of monitor_private
    head_list,               \* Active
    head_pending_list,       \* Pending
    head_move_pending_list,  \* MovePending
    head_index,              \* next index to assign
    regionClientHeads,       \* LayoutBounds, client space: the rectangles united so far
    regionWestonHeads,       \* LayoutBounds, local space
    compositor_head_list,    \* indices of the heads registered with the compositor
    pc,                      \* "idle", "layout_change" (inside the handler), "aborted",
                             \* "crashed"; "validated" in the second specification
    monitorMode,             \* the handler's array (sorted and projected by validation)
    loop_i,                  \* the handler's loop variable, 1-based
    doneIndex,               \* the monitors resolved by the fast match
    success,                 \* what the handler returned last: "none", "true", "false"
    outcome,                 \* how the last call ended: "none", "rejected", "failed", "committed"
    error,                   \* the error logged by the last call
    calls,                   \* compositor calls made by the current/last call, in order
    msg,                     \* facts about the message of the current/last call
    pre,                     \* lists, regions and last_committed when the current/last
                             \* call was entered
    last_committed,          \* the resolved modes that Active is the committed result of
    alloc_failures,          \* how many allocations have failed so far
    loop_task_list,          \* the tasks sent to the display loop and not yet run
    arrived,                 \* the messages the I/O thread has sent, in order
    applied                  \* the messages the display loop has given to the handler

vars == <<config, head_list, head_pending_list, head_move_pending_list, head_index,
          regionClientHeads, regionWestonHeads, compositor_head_list, pc, monitorMode,
          loop_i, doneIndex, success, outcome, error, calls, msg,
          pre, last_committed, alloc_failures, qsort_sorts, loop_task_list, arrived,
          applied>>

lists == <<head_list, head_pending_list, head_move_pending_list>>
regions == <<regionClientHeads, regionWestonHeads>>
queue == <<loop_task_list, arrived, applied>>

RemoveAt(s, k) == SubSeq(s, 1, k - 1) \o SubSeq(s, k + 1, Len(s))

Reverse(s) == [k \in 1..Len(s) |-> s[Len(s) + 1 - k]]

\* pixman_region32_union_rect: an empty rectangle adds nothing
union_rect(region, x, y, w, h) ==
    IF w > 0 /\ h > 0 THEN region \cup {Rect(x, y, w, h)} ELSE region

\* one compositor call: name, index of the head, two arguments
Call(op, index, a, b) == <<op, index, a, b>>

\* ExactMatch with the memcmp test inverted (memcmp(..) != 0)
ExactMatchInverted(current, mode) == current.monitorMode # mode

\* memcmp(&current->monitorMode, monitorMode, sizeof(*monitorMode)) == 0
ExactMatch(current, mode) == current.monitorMode = mode

\* wl_list_for_each ... break: the first of the positions S of a list, 0 if none
FirstOf(S) == IF S = {} THEN 0 ELSE CHOOSE k \in S : \A j \in S : k <= j

\* FastMatch without the wl_list_remove: the matched head is linked into
\* move_pending and stays in pending
RECURSIVE FastMatchWithoutRemove(_, _, _)
FastMatchWithoutRemove(mm, i, st) ==
    IF i > Len(mm) THEN st
    ELSE LET k == FirstOf({j \in 1..Len(st.pending) : st.pending[j].monitorMode = mm[i]})
         IN  IF k = 0 THEN FastMatchWithoutRemove(mm, i + 1, st)
             ELSE LET m == st.pending[k].monitorMode
                  IN  FastMatchWithoutRemove(mm, i + 1,
                        [st EXCEPT
                           !.move_pending = <<st.pending[k]>> \o @,
                           !.regionClient = union_rect(@, m.x, m.y, m.width, m.height),
                           !.regionWeston = union_rect(@, m.rectWeston.x, m.rectWeston.y,
                                               m.rectWeston.width, m.rectWeston.height),
                           !.done = @ \cup {i}])

\* the for loop of disp_start_monitor_layout_change from monitor i on;
\* st holds the two lists, the two regions and doneIndex
RECURSIVE FastMatch(_, _, _)
FastMatch(mm, i, st) ==
    IF i > Len(mm) THEN st
    ELSE LET k == FirstOf({j \in 1..Len(st.pending) : ExactMatch(st.pending[j], mm[i])})
         IN  IF k = 0 THEN FastMatch(mm, i + 1, st)
             ELSE LET current == st.pending[k]
                      m == current.monitorMode
                  IN  FastMatch(mm, i + 1,
                        [pending |-> RemoveAt(st.pending, k),
                         move_pending |-> <<current>> \o st.move_pending,
                         regionClient |-> union_rect(st.regionClient, m.x, m.y, m.width, m.height),
                         regionWeston |-> union_rect(st.regionWeston, m.rectWeston.x,
                                             m.rectWeston.y, m.rectWeston.width,
                                             m.rectWeston.height),
                         done |-> st.done \cup {i}])

\* disp_start_monitor_layout_change without the two pixman_region32_clear
StartWithoutClear(mm) ==
    FastMatch(mm, 1, [pending |-> head_list, move_pending |-> <<>>,
                      regionClient |-> regionClientHeads,
                      regionWeston |-> regionWestonHeads, done |-> {}])

disp_start_monitor_layout_change(mm) ==
    FastMatch(mm, 1, [pending |-> head_list, move_pending |-> <<>>,
                      regionClient |-> {}, regionWeston |-> {}, done |-> {}])

\* rdp_head_create with index 0 for every head
HeadCreateWithIndexZero(mode) ==
    [index |-> 0, monitorMode |-> mode,
     regionClient |-> Rect(mode.x, mode.y, mode.width, mode.height),
     regionWeston |-> mode.rectWeston,
     output |-> NoOutput]

\* rdp_head_create: the new head as it is linked into head_list
rdp_head_create(mode) ==
    [index |-> head_index, monitorMode |-> mode,
     regionClient |-> Rect(mode.x, mode.y, mode.width, mode.height),
     regionWeston |-> mode.rectWeston,
     output |-> NoOutput]

\* the search of disp_set_monitor_layout_change in the pending list:
\* position of the head picked (0: none) and updateMode
SizeMatch(current, mode) ==
    /\ current.monitorMode.width = mode.width
    /\ current.monitorMode.height = mode.height
    /\ current.monitorMode.scale = mode.scale

PositionMatch(current, mode) ==
    /\ current.monitorMode.x = mode.x
    /\ current.monitorMode.y = mode.y

\* BestFit without the second loop ("just pick first one to change mode")
BestFitWithoutFallback(pending, mode) ==
    LET k == FirstOf({j \in 1..Len(pending) :
                        /\ pending[j].monitorMode.is_primary = mode.is_primary
                        /\ (SizeMatch(pending[j], mode) \/ PositionMatch(pending[j], mode))})
    IN  IF k # 0 THEN [k |-> k, updateMode |-> ~SizeMatch(pending[k], mode)]
        ELSE [k |-> 0, updateMode |-> FALSE]

BestFit(pending, mode) ==
    LET k == FirstOf({j \in 1..Len(pending) :
                        /\ pending[j].monitorMode.is_primary = mode.is_primary
                        /\ (SizeMatch(pending[j], mode) \/ PositionMatch(pending[j], mode))})
    IN  IF k # 0 THEN [k |-> k, updateMode |-> ~SizeMatch(pending[k], mode)]
        ELSE IF pending # <<>> THEN [k |-> 1, updateMode |-> TRUE]
        ELSE [k |-> 0, updateMode |-> FALSE]

\* UpdateCalls with weston_output_mode_set_native called before the scale of
\* the output is changed
UpdateCallsModeFirst(head, mode) ==
    << Call("weston_output_mode_set_native", head.index, mode.width, mode.height) >>
    \o (IF head.output.scale # mode.scale
        THEN << Call("weston_output_disable", head.index, 0, 0),
                Call("weston_output_set_scale", head.index, mode.scale, 0),
                Call("weston_output_enable", head.index, 0, 0) >>
        ELSE <<>>)
    \o << Call("weston_output_set_transform", head.index, 0, 0) >>

\* the calls on the output of the "if (updateMode) if (output)" block
\* (weston_head_set_physical_size acts on the head and is not recorded)
UpdateCalls(head, mode) ==
    (IF head.output.scale # mode.scale
     THEN << Call("weston_output_disable", head.index, 0, 0),
             Call("weston_output_set_scale", head.index, mode.scale, 0),
             Call("weston_output_enable", head.index, 0, 0) >>
     ELSE <<>>)
    \o << Call("weston_output_mode_set_native", head.index, mode.width, mode.height),
          Call("weston_output_set_transform", head.index, 0, 0) >>

\* UpdatedOutput without the weston_output_set_scale
UpdatedOutputKeepsScale(output, mode) ==
    [output EXCEPT !.width = CDiv(mode.width, mode.scale),
                   !.height = CDiv(mode.height, mode.scale)]

\* the output after those calls: scale set, size = native mode / scale
UpdatedOutput(output, mode) ==
    [output EXCEPT !.scale = mode.scale,
                   !.width = CDiv(mode.width, mode.scale),
                   !.height = CDiv(mode.height, mode.scale)]

\* msg and pre while no call is in progress or waiting to be taken
NoMessage ==
    [count |-> 0, primaryCount |-> 0, primaryAtOrigin |-> TRUE, resubmitted |-> FALSE,
     horizontal |-> FALSE, vertical |-> FALSE, scalingUsed |-> FALSE,
     arrangement |-> "none"]

NoSnapshot == [head_list |-> <<>>, head_pending_list |-> <<>>,
               head_move_pending_list |-> <<>>,
               regionClientHeads |-> {}, regionWestonHeads |-> {},
               last_committed |-> <<>>]

Snapshot == [head_list |-> head_list, head_pending_list |-> head_pending_list,
             head_move_pending_list |-> head_move_pending_list,
             regionClientHeads |-> regionClientHeads,
             regionWestonHeads |-> regionWestonHeads,
             last_committed |-> last_committed]

TypeOK ==
    /\ config \in LayoutConfigs
    /\ qsort_sorts \in BOOLEAN
    /\ pc \in {"idle", "validated", "layout_change", "aborted", "crashed"}
    /\ head_index \in 0..MaxHeadIndex
    /\ success \in {"none", "true", "false"}
    /\ outcome \in {"none", "rejected", "failed", "committed"}

Init ==
    /\ config \in Configs
    /\ qsort_sorts \in BOOLEAN
    /\ head_list = <<>>
    /\ head_pending_list = <<>>
    /\ head_move_pending_list = <<>>
    /\ head_index = 0
    /\ regionClientHeads = {}
    /\ regionWestonHeads = {}
    /\ compositor_head_list = {}
    /\ pc = "idle"
    /\ monitorMode = <<>>
    /\ loop_i = 0
    /\ doneIndex = {}
    /\ success = "none"
    /\ outcome = "none"
    /\ error = "none"
    /\ calls = <<>>
    /\ msg = NoMessage
    /\ pre = NoSnapshot
    /\ last_committed = <<>>
    /\ alloc_failures = 0
    /\ loop_task_list = <<>>
    /\ arrived = <<>>
    /\ applied = <<>>

\* the orders in which n monitors can be lined up
Orders(n) == {f \in [1..n -> 1..n] : \A a, b \in 1..n : a # b => f[a] # f[b]}

\* the monitors of m form one row: lined up in some order, each starts where
\* the one before it ends and shares a part of its vertical span
InRow(m) ==
    \E f \in Orders(Len(m)) : \A i \in 2..Len(m) :
        LET p == m[f[i-1]]
            q == m[f[i]]
        IN  /\ q.x = p.x + p.width
            /\ p.y < q.y + q.height
            /\ q.y < p.y + p.height

\* the monitors of m form one column
InColumn(m) ==
    \E f \in Orders(Len(m)) : \A i \in 2..Len(m) :
        LET p == m[f[i-1]]
            q == m[f[i]]
        IN  /\ q.y = p.y + p.height
            /\ p.x < q.x + q.width
            /\ q.x < p.x + p.width

\* what the message says, read off the message itself
MessageFacts(m, v) ==
    [count |-> Len(m),
     primaryCount |-> Cardinality({k \in 1..Len(m) : m[k].is_primary}),
     primaryAtOrigin |-> \A k \in 1..Len(m) : m[k].is_primary => (m[k].x = 0 /\ m[k].y = 0),
     resubmitted |-> (v.modes = last_committed),
     horizontal |-> InRow(m),
     vertical |-> InColumn(m),
     scalingUsed |-> \E k \in 1..Len(m) :
                        disp_get_client_scale_from_monitor(config, m[k]) # 100,
     arrangement |-> v.arrangement]

\* the builds differ only where a division by zero can happen
Traps(cfg, m) ==
    IF \E k \in 1..Len(m) : disp_get_output_scale_from_monitor(cfg, m[k]) = 0
    THEN BOOLEAN ELSE {TRUE}

\* NextUndone without the test of doneIndex: every monitor goes through
\* disp_set_monitor_layout_change
NextUndoneIgnoringDone(from, count, done) == from

\* the handler's loop skips the monitors of doneIndex: the first i >= from
\* that is not done, or count + 1
RECURSIVE NextUndone(_, _, _)
NextUndone(from, count, done) ==
    IF from <= count /\ from \in done THEN NextUndone(from + 1, count, done) ELSE from

\* rdp_disp_handle_adjust_monitor_layout up to and including
\* disp_start_monitor_layout_change
HandleAdjustMonitorLayout(m, trap) ==
    LET mm == [k \in 1..Len(m) |-> rdp_monitor_mode(config, m[k])]
        v == disp_monitor_validate_and_compute_layout(mm, trap)
        st == disp_start_monitor_layout_change(v.modes)
    IN  /\ pc = "idle"
        /\ success = "none"
        /\ head_index + (IF Len(m) > Len(head_list) THEN Len(m) - Len(head_list) ELSE 0)
              <= MaxHeadIndex
        /\ msg' = MessageFacts(m, v)
        /\ pre' = Snapshot
        /\ calls' = <<>>
        /\ error' = v.error
        /\ UNCHANGED <<config, qsort_sorts, head_index, compositor_head_list, last_committed,
                       alloc_failures>>
        /\ IF v.status = "rejected"
           THEN \* if (!disp_monitor_validate_and_compute_layout(..)) { success = true; goto exit; }
                /\ pc' = "idle"
                /\ success' = "true"
                /\ outcome' = "rejected"
                /\ UNCHANGED <<lists, regions, monitorMode, loop_i, doneIndex>>
           ELSE IF v.status \in {"assert", "fpe"}
           THEN /\ pc' = IF v.status = "assert" THEN "aborted" ELSE "crashed"
                /\ UNCHANGED <<lists, regions, monitorMode, loop_i, doneIndex, success,
                               outcome>>
           ELSE /\ pc' = "layout_change"
                /\ monitorMode' = v.modes
                /\ head_list' = <<>>
                /\ head_pending_list' = st.pending
                /\ head_move_pending_list' = st.move_pending
                /\ regionClientHeads' = st.regionClient
                /\ regionWestonHeads' = st.regionWeston
                /\ doneIndex' = st.done
                /\ loop_i' = NextUndone(1, Len(m), st.done)
                /\ success' = "none"
                /\ outcome' = "none"

\* ReuseHead without "current->monitorMode = *monitorMode"
ReuseHeadKeepsMode(current, mode, updateMode) ==
    [current EXCEPT
        !.regionClient = Rect(mode.x, mode.y, mode.width, mode.height),
        !.regionWeston = mode.rectWeston,
        !.output = IF updateMode THEN UpdatedOutput(@, mode) ELSE @]

\* ReuseHead without the update of regionClient and regionWeston
ReuseHeadKeepsRegions(current, mode, updateMode) ==
    [current EXCEPT
        !.monitorMode = mode,
        !.output = IF updateMode THEN UpdatedOutput(@, mode) ELSE @]

\* "reusing exising head": the Pending head current as it is linked into
\* MovePending for the monitor mode
ReuseHead(current, mode, updateMode) ==
    [current EXCEPT
        !.monitorMode = mode,
        !.regionClient = Rect(mode.x, mode.y, mode.width, mode.height),
        !.regionWeston = mode.rectWeston,
        !.output = IF updateMode THEN UpdatedOutput(@, mode) ELSE @]

\* one iteration of the handler's for loop that is not skipped:
\* disp_set_monitor_layout_change on monitor loop_i.
\* The allocation in rdp_head_create succeeds or fails.
SetMonitorLayoutChange ==
    LET mode == monitorMode[loop_i]
        fit == BestFit(head_pending_list, mode)
        current == head_pending_list[fit.k]
        reused == ReuseHead(current, mode, fit.updateMode)
        Accumulate ==
            /\ regionClientHeads' = union_rect(regionClientHeads, mode.x, mode.y,
                                               mode.width, mode.height)
            /\ regionWestonHeads' = union_rect(regionWestonHeads, mode.rectWeston.x,
                                               mode.rectWeston.y, mode.rectWeston.width,
                                               mode.rectWeston.height)
    IN  /\ pc = "layout_change"
        /\ loop_i <= Len(monitorMode)
        /\ UNCHANGED <<config, qsort_sorts, msg, pre, monitorMode, doneIndex, queue>>
        /\ IF fit.k # 0
           THEN IF ~current.output.bound
                   THEN \* assert(output)
                        /\ pc' = "aborted"
                        /\ error' = "assert(output)"
                        /\ UNCHANGED <<lists, regions, head_index, compositor_head_list,
                                       loop_i, success, outcome, calls, alloc_failures,
                                       last_committed>>
                   ELSE IF fit.updateMode
                           /\ (reused.output.width # mode.rectWeston.width
                               \/ reused.output.height # mode.rectWeston.height)
                   THEN \* assert(output->width == (int32_t) monitorMode->rectWeston.width)
                        /\ pc' = "aborted"
                        /\ error' = "assert(output->width == rectWeston.width)"
                        /\ UNCHANGED <<lists, regions, head_index, compositor_head_list,
                                       loop_i, success, outcome, calls, alloc_failures,
                                       last_committed>>
                   ELSE /\ head_pending_list' = RemoveAt(head_pending_list, fit.k)
                        /\ head_move_pending_list' = <<reused>> \o head_move_pending_list
                        /\ calls' = IF fit.updateMode
                                    THEN calls \o UpdateCalls(current, mode) ELSE calls
                        /\ Accumulate
                        /\ loop_i' = NextUndone(loop_i + 1, Len(monitorMode), doneIndex)
                        /\ UNCHANGED <<head_list, head_index, compositor_head_list, pc,
                                       success, outcome, error, alloc_failures,
                                       last_committed>>
           ELSE \/ /\ head_list' = <<rdp_head_create(mode)>> \o head_list
                   /\ head_index' = head_index + 1
                   /\ compositor_head_list' = compositor_head_list \cup {head_index}
                   /\ Accumulate
                   /\ loop_i' = NextUndone(loop_i + 1, Len(monitorMode), doneIndex)
                   /\ UNCHANGED <<head_pending_list, head_move_pending_list, pc, success,
                                  outcome, error, calls, alloc_failures, last_committed>>
                \/ \* rdp_head_create returned NULL: ERROR_INTERNAL_ERROR,
                   \* { success = true; goto exit; }
                   /\ alloc_failures < MaxAllocFailures
                   /\ alloc_failures' = alloc_failures + 1
                   /\ pc' = "idle"
                   /\ success' = "true"
                   /\ outcome' = "failed"
                   /\ error' = "ERROR_INTERNAL_ERROR"
                   /\ last_committed' = <<>>
                   /\ UNCHANGED <<lists, regions, head_index, compositor_head_list,
                                  loop_i, calls>>

\* the heads of head_list that are primary (the last loop of disp_end_monitor_layout_change)
Primaries(list) == {k \in 1..Len(list) : list[k].monitorMode.is_primary}

\* Moved without the weston_output_move
MovedNowhere(head) == head

\* weston_output_move(current->base.output, rectWeston.x, rectWeston.y)
Moved(head) ==
    IF head.output.bound
    THEN [head EXCEPT !.output.x = head.monitorMode.rectWeston.x,
                      !.output.y = head.monitorMode.rectWeston.y]
    ELSE head

RECURSIVE MoveCalls(_)
MoveCalls(list) ==
    IF list = <<>> THEN <<>>
    ELSE (IF Head(list).output.bound
          THEN << Call("weston_output_move", Head(list).index,
                       Head(list).monitorMode.rectWeston.x,
                       Head(list).monitorMode.rectWeston.y) >>
          ELSE <<>>) \o MoveCalls(Tail(list))

\* disp_end_monitor_layout_change and the handler's return
EndMonitorLayoutChange ==
    LET committed == Reverse([k \in 1..Len(head_move_pending_list) |->
                                 Moved(head_move_pending_list[k])]) \o head_list
        destroyed == {head_pending_list[k].index : k \in 1..Len(head_pending_list)}
    IN  /\ pc = "layout_change"
        /\ loop_i > Len(monitorMode)
        /\ head_list' = committed
        /\ head_move_pending_list' = <<>>
        /\ head_pending_list' = <<>>
        /\ compositor_head_list' = compositor_head_list \ destroyed
        /\ calls' = calls \o MoveCalls(head_move_pending_list)
        /\ UNCHANGED <<config, qsort_sorts, head_index, regions, msg, pre, alloc_failures,
                       monitorMode, loop_i, doneIndex, queue>>
        /\ IF committed = <<>>
           THEN \* assert(!wl_list_empty(&mp->head_list))
                /\ pc' = "aborted"
                /\ error' = "assert(!wl_list_empty(&mp->head_list))"
                /\ UNCHANGED <<success, outcome, last_committed>>
           ELSE IF \E k \in Primaries(committed) :
                      committed[k].monitorMode.x # 0 \/ committed[k].monitorMode.y # 0
           THEN /\ pc' = "aborted"
                /\ error' = "assert(current->monitorMode.monitorDef.x == 0)"
                /\ UNCHANGED <<success, outcome, last_committed>>
           ELSE IF Cardinality(Primaries(committed)) > 1
           THEN /\ pc' = "aborted"
                /\ error' = "assert(is_primary_found == FALSE)"
                /\ UNCHANGED <<success, outcome, last_committed>>
           ELSE /\ pc' = "idle"
                /\ success' = "true"
                /\ outcome' = "committed"
                /\ last_committed' = monitorMode
                /\ UNCHANGED error

\* The compositor's heads-changed callback gives every Active head that has
\* no output one, and enables it: rdp_output_get_config gives the output its
\* size and scale from the head's mode, rdpdisp_output_enable moves it to the
\* head's place.  Runs on the compositor thread, so never inside the handler.
EnabledOutput(h) ==
    IF h.output.bound THEN h
    ELSE [h EXCEPT !.output =
            [bound |-> TRUE, scale |-> h.monitorMode.scale,
             x |-> h.monitorMode.rectWeston.x,
             y |-> h.monitorMode.rectWeston.y,
             width |-> CDiv(h.monitorMode.width, h.monitorMode.scale),
             height |-> CDiv(h.monitorMode.height, h.monitorMode.scale)]]

rdpdisp_output_enable ==
    /\ pc = "idle"
    /\ success = "none"
    /\ \E k \in 1..Len(head_list) : ~head_list[k].output.bound
    /\ head_list' = [k \in 1..Len(head_list) |-> EnabledOutput(head_list[k])]
    /\ UNCHANGED <<config, qsort_sorts, head_pending_list, head_move_pending_list, head_index,
                   regions, compositor_head_list, pc, monitorMode, loop_i, doneIndex,
                   success, outcome, error, calls, msg, pre, last_committed,
                   alloc_failures, queue>>

\* The caller (handle_adjust_monitor_layout of the protocol layer) takes the
\* handler's result; the next message is handled after that.
handle_adjust_monitor_layout ==
    /\ pc = "idle"
    /\ success # "none"
    /\ success' = "none"
    /\ outcome' = "none"
    /\ error' = "none"
    /\ calls' = <<>>
    /\ msg' = NoMessage
    /\ pre' = NoSnapshot
    /\ monitorMode' = <<>>
    /\ loop_i' = 0
    /\ doneIndex' = {}
    /\ UNCHANGED <<config, qsort_sorts, lists, head_index, regions, compositor_head_list, pc,
                   last_committed, alloc_failures, queue>>

Next ==
    \/ /\ pc = "idle"
       /\ success = "none"
       /\ \E m \in Messages : \E trap \in Traps(config, m) : HandleAdjustMonitorLayout(m, trap)
       /\ UNCHANGED queue
    \/ SetMonitorLayoutChange
    \/ EndMonitorLayoutChange
    \/ rdpdisp_output_enable
    \/ handle_adjust_monitor_layout

Spec == Init /\ [][Next]_vars

(* ---------------- three monitors in a row ---------------- *)

\* The third specification runs the same handler on layouts of three monitors
\* of one size: a primary at the origin and secondaries left and right of it.
ReuseMonitors ==
    { Monitor(0, 0, TRUE, 100), Monitor(2, 0, FALSE, 100), Monitor(4, 0, FALSE, 100),
      Monitor(-2, 0, FALSE, 100) }

ReuseMessages ==
    { m \in [1..3 -> ReuseMonitors] : \A i, j \in 1..3 : i < j => m[i].x < m[j].x }

NextReuse ==
    \/ /\ \E m \in ReuseMessages : HandleAdjustMonitorLayout(m, TRUE)
       /\ UNCHANGED queue
    \/ SetMonitorLayoutChange
    \/ EndMonitorLayoutChange
    \/ rdpdisp_output_enable
    \/ handle_adjust_monitor_layout

SpecReuse == Init /\ [][NextReuse]_vars

(* ---------------- monitors left of and above the primary ---------------- *)

\* The fourth specification runs the same handler on layouts whose secondaries
\* lie diagonally to a primary of 200%, also at negative coordinates, and on a
\* primary of 50%, and on a primary of 200% whose width and height (3) are no
\* multiple of its scale.
OddPrimary ==
    [x |-> 0, y |-> 0, width |-> 3, height |-> 3, is_primary |-> TRUE,
     desktopScaleFactor |-> 200]

ComplexMonitors ==
    { Monitor(0, 0, TRUE, 200), Monitor(-2, 2, FALSE, 100), Monitor(2, -2, FALSE, 200),
      Monitor(2, 0, FALSE, 100), Monitor(0, 0, TRUE, 50), OddPrimary }

ComplexMessages == UNION { [1..n -> ComplexMonitors] : n \in 1..MaxMonitors }

NextComplex ==
    \/ /\ pc = "idle"
       /\ success = "none"
       /\ \E m \in ComplexMessages : \E trap \in Traps(config, m) :
             HandleAdjustMonitorLayout(m, trap)
       /\ UNCHANGED queue
    \/ SetMonitorLayoutChange
    \/ EndMonitorLayoutChange
    \/ rdpdisp_output_enable
    \/ handle_adjust_monitor_layout

SpecComplex == Init /\ [][NextComplex]_vars

(* ---------------- validation and projection on their own ---------------- *)

\* the monitors of its messages: 2x2 monitors at x = -2, 0, 2 and y = 0, 1, 2
\* (side by side, stacked, or shifted by half a monitor), primary or not, with
\* a desktopScaleFactor of 50, 100, 150 or 200
LayoutMonitors ==
    { Monitor(x, y, p, d) : x \in {-2, 0, 2}, y \in {0, 1, 2}, p \in BOOLEAN,
                            d \in {50, 100, 150, 200} }

LayoutMessages == UNION { [1..n -> LayoutMonitors] : n \in 1..MaxMonitors }

InitLayout ==
    /\ config \in LayoutConfigs
    /\ qsort_sorts \in BOOLEAN
    /\ head_list = <<>>
    /\ head_pending_list = <<>>
    /\ head_move_pending_list = <<>>
    /\ head_index = 0
    /\ regionClientHeads = {}
    /\ regionWestonHeads = {}
    /\ compositor_head_list = {}
    /\ pc = "idle"
    /\ monitorMode = <<>>
    /\ loop_i = 0
    /\ doneIndex = {}
    /\ success = "none"
    /\ outcome = "none"
    /\ error = "none"
    /\ calls = <<>>
    /\ msg = NoMessage
    /\ pre = NoSnapshot
    /\ last_committed = <<>>
    /\ alloc_failures = 0
    /\ loop_task_list = <<>>
    /\ arrived = <<>>
    /\ applied = <<>>

\* rdp_disp_handle_adjust_monitor_layout up to the return of
\* disp_monitor_validate_and_compute_layout: the array is filled from the
\* message, the scales are derived, the layout is validated and projected.
\* pc tells how the call ended: "validated" (TRUE), "idle" (FALSE: the
\* handler returns), "aborted" (assert), "crashed" (division by zero trapped).
ValidateAndComputeLayout(m, trap) ==
    LET mm == [k \in 1..Len(m) |-> rdp_monitor_mode(config, m[k])]
        v == disp_monitor_validate_and_compute_layout(mm, trap)
    IN  /\ pc = "idle"
        /\ success = "none"
        /\ msg' = MessageFacts(m, v)
        /\ monitorMode' = v.modes
        /\ error' = v.error
        /\ pc' = CASE v.status = "ok" -> "validated"
                   [] v.status = "rejected" -> "idle"
                   [] v.status = "assert" -> "aborted"
                   [] v.status = "fpe" -> "crashed"
        /\ success' = IF v.status = "rejected" THEN "true" ELSE "none"
        /\ outcome' = IF v.status = "rejected" THEN "rejected" ELSE "none"
        /\ UNCHANGED <<config, qsort_sorts, lists, head_index, regions, compositor_head_list, loop_i,
                       doneIndex, calls, pre, last_committed, alloc_failures, queue>>

NextLayout ==
    /\ pc = "idle"
    /\ success = "none"
    /\ \E m \in LayoutMessages : \E trap \in Traps(config, m) : ValidateAndComputeLayout(m, trap)

SpecLayout == InitLayout /\ [][NextLayout]_vars

(* ---------------- CoordinateMapper ---------------- *)

\* to_weston_scale_only with scale = 1.0f / clientScale: (int)((float)v * scale).
\* For the scales 1.0 .. 3.0 in steps of 0.25 and 0 <= v < 4000 the single
\* precision product truncates to the exact quotient, which is what is computed
\* here.  clientScale = 0 (scale = inf) is taken as 0.
to_weston_scale_only(clientScale, v) == CDiv(v * 100, clientScale)

\* to_client_scale_only with scale = clientScale: (int)((float)v * scale)
to_client_scale_only(clientScale, v) == TruncDiv(v * clientScale, 100)

\* pixman_region32_contains_point on the one rectangle of a head's region
contains_point(r, x, y) ==
    /\ r.x <= x /\ x < r.x + r.width
    /\ r.y <= y /\ y < r.y + r.height

\* FirstContaining that ends with the last head when no head holds the point
RECURSIVE FirstContainingOrLast(_, _, _, _)
FirstContainingOrLast(list, k, x, y) ==
    IF k > Len(list) THEN Len(list)
    ELSE IF contains_point(list[k].regionClient, x, y) THEN k
    ELSE FirstContainingOrLast(list, k + 1, x, y)

\* position in the list of the first head whose regionClient holds (x, y), 0: none
RECURSIVE FirstContaining(_, _, _, _)
FirstContaining(list, k, x, y) ==
    IF k > Len(list) THEN 0
    ELSE IF contains_point(list[k].regionClient, x, y) THEN k
    ELSE FirstContaining(list, k + 1, x, y)

\* to_weston_coordinate: the head found (0: the function returns NULL and leaves
\* x and y alone) and the point in weston space
to_weston_coordinate(list, x, y) ==
    LET k == FirstContaining(list, 1, x, y)
    IN  IF k = 0 THEN [head |-> 0, x |-> x, y |-> y]
        ELSE LET mode == list[k].monitorMode
             IN  [head |-> k,
                  x |-> to_weston_scale_only(mode.clientScale, x - mode.x) + mode.rectWeston.x,
                  y |-> to_weston_scale_only(mode.clientScale, y - mode.y) + mode.rectWeston.y]

\* to_weston_coordinate called with width and height: both are scaled like the
\* offset of the point when a head is found
to_weston_coordinate_size(list, x, y, width, height) ==
    LET w == to_weston_coordinate(list, x, y)
    IN  IF w.head = 0
        THEN [head |-> 0, x |-> x, y |-> y, width |-> width, height |-> height]
        ELSE [head |-> w.head, x |-> w.x, y |-> w.y,
              width |-> to_weston_scale_only(list[w.head].monitorMode.clientScale, width),
              height |-> to_weston_scale_only(list[w.head].monitorMode.clientScale, height)]

\* to_client_coordinate without the translation from the output's origin
ToClientWithoutWestonOrigin(head, x, y) ==
    LET mode == head.monitorMode
    IN  [x |-> to_client_scale_only(mode.clientScale, x) + mode.x,
         y |-> to_client_scale_only(mode.clientScale, y) + mode.y]

\* to_client_coordinate for the output whose first head is head
to_client_coordinate(head, x, y) ==
    LET mode == head.monitorMode
    IN  [x |-> to_client_scale_only(mode.clientScale, x - mode.rectWeston.x) + mode.x,
         y |-> to_client_scale_only(mode.clientScale, y - mode.rectWeston.y) + mode.y]

\* pixman_region32_t.extents: the box around the rectangles of a region
\* (x1 = y1 = x2 = y2 = 0 for the empty region)
Extents(region) ==
    IF region = {} THEN [x1 |-> 0, y1 |-> 0, x2 |-> 0, y2 |-> 0]
    ELSE [x1 |-> CHOOSE v \in {r.x : r \in region} : \A r \in region : v <= r.x,
          y1 |-> CHOOSE v \in {r.y : r \in region} : \A r \in region : v <= r.y,
          x2 |-> CHOOSE v \in {r.x + r.width : r \in region} :
                    \A r \in region : v >= r.x + r.width,
          y2 |-> CHOOSE v \in {r.y + r.height : r \in region} :
                    \A r \in region : v >= r.y + r.height]

get_client_extents == Extents(regionClientHeads)

(* ---------------- monitors of fractional scale ---------------- *)

\* The fifth specification runs the handler on monitors 4 pixels wide and high
\* with scale factors of 100% to 175%, under every server configuration.
WideMonitor(x, y, p, d) ==
    [x |-> x, y |-> y, width |-> 4, height |-> 4, is_primary |-> p, desktopScaleFactor |-> d]

FractionalMonitors ==
    { WideMonitor(0, 0, TRUE, 175), WideMonitor(0, 0, TRUE, 150),
      WideMonitor(4, 0, FALSE, 125), WideMonitor(-4, 0, FALSE, 100) }

FractionalMessages == UNION { [1..n -> FractionalMonitors] : n \in 1..MaxMonitors }

NextFractional ==
    \/ /\ pc = "idle"
       /\ success = "none"
       /\ \E m \in FractionalMessages : \E trap \in Traps(config, m) :
             HandleAdjustMonitorLayout(m, trap)
       /\ UNCHANGED queue
    \/ SetMonitorLayoutChange
    \/ EndMonitorLayoutChange
    \/ rdpdisp_output_enable
    \/ handle_adjust_monitor_layout

SpecFractional == InitLayout /\ [][NextFractional]_vars

(* ---------------- the task queue of the display loop ---------------- *)

\* The sixth specification puts the handler behind the queue of tasks
\* (rdp_peer_context.loop_task_list) through which the I/O thread hands layout
\* messages to the display loop.  The functions that insert and run the tasks
\* are declared in rdp.h and defined outside the files modelled here; they are
\* modelled after the specification of the concurrency model: the I/O thread
\* only appends a task, under loop_task_list_mutex, and the display loop runs
\* the tasks first-in first-out, each to its return.
QueueMessages ==
    { <<Monitor(0, 0, TRUE, 100)>>,
      <<Monitor(0, 0, TRUE, 100), Monitor(2, 0, FALSE, 100)>>,
      <<Monitor(0, 0, TRUE, 200)>> }

\* the I/O thread calling the handler itself instead of sending a task
DispatchRunsHandler(m) ==
    /\ Len(arrived) < MaxTasks
    /\ arrived' = Append(arrived, m)
    /\ applied' = Append(applied, m)
    /\ HandleAdjustMonitorLayout(m, TRUE)
    /\ UNCHANGED loop_task_list

\* the I/O thread on a layout message: lock loop_task_list_mutex, append the
\* task, unlock (one step, as the lock makes it)
rdp_dispatch_task_to_display_loop(m) ==
    /\ Len(arrived) < MaxTasks
    /\ arrived' = Append(arrived, m)
    /\ loop_task_list' = Append(loop_task_list, m)
    /\ UNCHANGED <<config, qsort_sorts, lists, head_index, regions, compositor_head_list, pc,
                   monitorMode, loop_i, doneIndex, success, outcome, error, calls, msg,
                   pre, last_committed, alloc_failures, applied>>

\* the display loop, when no task is running, takes the oldest task off the
\* list and runs it: the task calls the handler with the task's message
RunLoopTask ==
    /\ pc = "idle"
    /\ success = "none"
    /\ loop_task_list # <<>>
    /\ HandleAdjustMonitorLayout(Head(loop_task_list), TRUE)
    /\ loop_task_list' = Tail(loop_task_list)
    /\ applied' = Append(applied, Head(loop_task_list))
    /\ UNCHANGED arrived

NextQueue ==
    \/ \E m \in QueueMessages : rdp_dispatch_task_to_display_loop(m)
    \/ RunLoopTask
    \/ SetMonitorLayoutChange
    \/ EndMonitorLayoutChange
    \/ rdpdisp_output_enable
    \/ handle_adjust_monitor_layout

SpecQueue == Init /\ [][NextQueue]_vars

(* ---------------- properties ---------------- *)

\* the indices of the heads linked into a list
Indices(list) == {list[k].index : k \in 1..Len(list)}

\* index and stored mode of the heads of a list
Stored(list) == {<<list[k].index, list[k].monitorMode>> : k \in 1..Len(list)}

\* two rectangles share a region of positive area
Overlap(a, b) ==
    /\ is_line_intersected(a.x, a.x + a.width, b.x, b.x + b.width)
    /\ is_line_intersected(a.y, a.y + a.height, b.y, b.y + b.height)

\* C1: a layout message with two or more monitors flagged primary is rejected:
\* the handler has returned, the three lists and both regions are as they were
\* when it was called, and no compositor call was made.
C1_MultiplePrimariesRejected ==
    msg.primaryCount >= 2 =>
        /\ pc = "idle"
        /\ outcome = "rejected"
        /\ Snapshot = pre
        /\ calls = <<>>

\* a message with two primaries at the origin was rejected while heads existed
C1_Witness ==
    /\ msg.primaryCount >= 2
    /\ outcome = "rejected"
    /\ error = "PrimaryCountInvalid"
    /\ head_list # <<>>

\* C2: a layout message without a primary is rejected with the primary-count
\* error, Active is unchanged and the transaction is never begun.
C2_NoPrimaryRejected ==
    (msg.count > 0 /\ msg.primaryCount = 0) =>
        /\ pc = "idle"
        /\ outcome = "rejected"
        /\ error = "PrimaryCountInvalid"
        /\ head_list = pre.head_list

\* C3: a layout message whose primary is not at client (0,0) is rejected and
\* Active, Pending, MovePending and both regions are unchanged.
C3_PrimaryOffOriginRejected ==
    ~msg.primaryAtOrigin =>
        /\ pc = "idle"
        /\ outcome = "rejected"
        /\ Snapshot = pre

\* the single primary of a message was off the origin and the message was
\* rejected while heads existed
C3_Witness ==
    /\ ~msg.primaryAtOrigin
    /\ msg.primaryCount = 1
    /\ outcome = "rejected"
    /\ error = "PrimaryNotAtOrigin"
    /\ head_list # <<>>

\* C4: the handler's result tells the outcomes apart: failure when the message
\* was rejected or a step failed, success only when the transaction was committed.
C4_ResultDistinguishesOutcomes ==
    /\ outcome \in {"rejected", "failed"} => success = "false"
    /\ success = "true" => outcome = "committed"

\* C5: after a committed message Active is not empty and holds exactly one
\* primary head, whose client rectangle starts at (0,0).
C5_CommittedOnePrimaryAtOrigin ==
    outcome = "committed" =>
        /\ head_list # <<>>
        /\ Cardinality(Primaries(head_list)) = 1
        /\ \A k \in Primaries(head_list) :
              head_list[k].regionClient.x = 0 /\ head_list[k].regionClient.y = 0

\* C6: after a committed message no two Active heads have overlapping client
\* rectangles.
C6_CommittedNoOverlap ==
    outcome = "committed" =>
        \A i, j \in 1..Len(head_list) :
            i # j => ~Overlap(head_list[i].regionClient, head_list[j].regionClient)

\* C7: the output scale derived for a monitor is at least 1 for every
\* desktopScaleFactor and configuration, and the projection never divides by zero.
C7_OutputScaleAtLeastOne ==
    /\ \A k \in 1..Len(monitorMode) : monitorMode[k].scale >= 1
    /\ pc # "crashed"

\* C8: every head is linked into exactly one of the three lists, and whenever
\* the handler is not running Pending and MovePending are empty and every live
\* head (every head registered with the compositor) is in Active.
C8_OneListAndNoneLeftPending ==
    /\ Cardinality(Indices(head_list) \cup Indices(head_pending_list)
                   \cup Indices(head_move_pending_list))
          = Len(head_list) + Len(head_pending_list) + Len(head_move_pending_list)
    /\ pc = "idle" =>
          /\ head_pending_list = <<>>
          /\ head_move_pending_list = <<>>
          /\ Indices(head_list) = compositor_head_list

\* C9 as stated: Active holds no head between Begin and Commit.
C9_ActiveEmptyInsideTransaction ==
    pc = "layout_change" => head_list = <<>>

\* C9, amended: inside a transaction every head that existed at Begin is in
\* exactly one of Pending and MovePending, Active holds exactly the heads created
\* by this transaction (rdp_head_create links them into head_list), a head only
\* moves forward (Pending loses heads, MovePending and Active gain them), and
\* the commit moves MovePending into Active and destroys what is left in Pending.
C9_HeadsMoveForward ==
    [][ /\ pc' = "layout_change" =>
              /\ Indices(head_list') \cap Indices(pre'.head_list) = {}
              /\ Indices(head_pending_list') \cup Indices(head_move_pending_list')
                    = Indices(pre'.head_list)
              /\ Indices(head_pending_list') \cap Indices(head_move_pending_list') = {}
              /\ Cardinality(Indices(head_pending_list') \cup Indices(head_move_pending_list')
                             \cup Indices(head_list'))
                    = Len(head_pending_list') + Len(head_move_pending_list') + Len(head_list')
        /\ (pc = "layout_change" /\ pc' = "layout_change") =>
              /\ Indices(head_pending_list') \subseteq Indices(head_pending_list)
              /\ Indices(head_move_pending_list) \subseteq Indices(head_move_pending_list')
              /\ Indices(head_list) \subseteq Indices(head_list')
        /\ (pc = "layout_change" /\ outcome' = "committed") =>
              /\ Indices(head_list') = Indices(head_list) \cup Indices(head_move_pending_list)
              /\ compositor_head_list' = compositor_head_list \ Indices(head_pending_list)
      ]_vars

\* inside a transaction a matched head waits in MovePending while a head
\* created by the transaction is already in Active
C9_Witness ==
    /\ pc = "layout_change"
    /\ head_move_pending_list # <<>>
    /\ head_list # <<>>
    /\ loop_i > Len(monitorMode)

\* C10 as stated: resubmitting the committed topology resolves every monitor
\* by the fast match, makes no compositor call at all and keeps indices and modes.
C10_ResubmissionMakesNoCall ==
    (outcome = "committed" /\ msg.resubmitted) =>
        /\ doneIndex = 1..Len(monitorMode)
        /\ calls = <<>>
        /\ Stored(head_list) = Stored(pre.head_list)

\* C10, amended: resubmitting the committed topology resolves every monitor by
\* the fast match; the only compositor calls are the weston_output_move of the
\* commit, one per head that has an output, each to the position that output
\* already has; the Active heads keep their indices, modes and outputs.
C10_ResubmissionOnlyMovesInPlace ==
    (outcome = "committed" /\ msg.resubmitted) =>
        /\ doneIndex = 1..Len(monitorMode)
        /\ \A c \in 1..Len(calls) :
              /\ calls[c][1] = "weston_output_move"
              /\ \E k \in 1..Len(pre.head_list) :
                    /\ pre.head_list[k].index = calls[c][2]
                    /\ pre.head_list[k].output.bound
                    /\ pre.head_list[k].output.x = calls[c][3]
                    /\ pre.head_list[k].output.y = calls[c][4]
        /\ Len(calls) = Cardinality({k \in 1..Len(head_list) : head_list[k].output.bound})
        /\ Stored(head_list) = Stored(pre.head_list)
        /\ {head_list[k] : k \in 1..Len(head_list)}
              = {pre.head_list[k] : k \in 1..Len(pre.head_list)}

\* a topology of two monitors was committed again while both outputs existed
C10_Witness ==
    /\ outcome = "committed"
    /\ msg.resubmitted
    /\ Len(head_list) = 2
    /\ Len(calls) = 2

\* the fields of a stored mode that the client sent
Raw(mode) ==
    [x |-> mode.x, y |-> mode.y, width |-> mode.width, height |-> mode.height,
     is_primary |-> mode.is_primary, desktopScaleFactor |-> mode.desktopScaleFactor]

\* monitor i of the handler's array is the only one that differs from the
\* topology committed before the call, and it differs in x or y only
OnlyMoved(i) ==
    LET old == pre.last_committed
        new == monitorMode
        n == Len(new)
    IN  /\ Len(old) = n
        /\ \E f \in [1..n -> 1..n] :
              /\ \A a, b \in 1..n : a # b => f[a] # f[b]
              /\ \A a \in 1..n : a # i => Raw(new[a]) = Raw(old[f[a]])
              /\ Raw(new[i]) # Raw(old[f[i]])
              /\ [Raw(new[i]) EXCEPT !.x = 0, !.y = 0] = [Raw(old[f[i]]) EXCEPT !.x = 0, !.y = 0]
        /\ \A a \in 1..n : a # i => Raw(new[a]) # Raw(new[i])

\* the indices of the heads of a list that drive the monitor r
Driving(list, r) == {list[k].index : k \in {j \in 1..Len(list) : Raw(list[j].monitorMode) = r}}

\* C11: when the committed topology changes only in the client position of one
\* monitor, the commit destroys and creates no head and every unchanged monitor
\* keeps the head (the index) that drove it before.
C11_UnchangedMonitorsKeepHeads ==
    \A i \in 1..Len(monitorMode) :
        (outcome = "committed" /\ OnlyMoved(i)) =>
            /\ Indices(head_list) = Indices(pre.head_list)
            /\ \A a \in 1..Len(monitorMode) :
                  a # i => Driving(head_list, Raw(monitorMode[a]))
                             = Driving(pre.head_list, Raw(monitorMode[a]))

\* the smallest of a set of integers and 0
MinOrZero(S) == IF \E v \in S : v < 0 THEN CHOOSE v \in S : \A w \in S : v <= w ELSE 0

\* the message has one primary, at the origin, is neither a row nor a column
\* and carries a clientScale other than 1
ComplexScaledMessage ==
    /\ msg.count > 0
    /\ msg.primaryCount = 1
    /\ msg.primaryAtOrigin
    /\ ~msg.horizontal
    /\ ~msg.vertical
    /\ msg.scalingUsed

\* C12: complex placement with scaling is accepted (validation returns TRUE and
\* the transaction is begun), every mode leaves the projection with scale 1,
\* clientScale 1.0 and rectWeston = the client rectangle moved by |upperLeft|,
\* and after the commit Active holds exactly these modes.
C12_ComplexPlacementUnscaled ==
    ComplexScaledMessage =>
        LET ulx == MinOrZero({monitorMode[k].x : k \in 1..Len(monitorMode)})
            uly == MinOrZero({monitorMode[k].y : k \in 1..Len(monitorMode)})
        IN  /\ outcome # "rejected"
            /\ Len(monitorMode) = msg.count
            /\ \A k \in 1..Len(monitorMode) :
                  /\ monitorMode[k].scale = 1
                  /\ monitorMode[k].clientScale = 100
                  /\ monitorMode[k].rectWeston
                        = Rect(monitorMode[k].x - ulx, monitorMode[k].y - uly,
                               monitorMode[k].width, monitorMode[k].height)
            /\ outcome = "committed" =>
                  /\ {head_list[k].monitorMode : k \in 1..Len(head_list)}
                        = {monitorMode[k] : k \in 1..Len(monitorMode)}
                  /\ \A k \in 1..Len(head_list) :
                        head_list[k].regionWeston = head_list[k].monitorMode.rectWeston

\* a complex placement of a 200% primary and a secondary left of and below it
\* was committed on two heads
C12_Witness ==
    /\ ComplexScaledMessage
    /\ outcome = "committed"
    /\ Len(head_list) = 2
    /\ \E k \in 1..Len(head_list) :
          /\ head_list[k].monitorMode.desktopScaleFactor = 200
          /\ head_list[k].monitorMode.rectWeston.x = 2
    /\ \E k \in 1..Len(head_list) : head_list[k].monitorMode.x < 0

\* C13: for every accepted topology that is one row, the projected rectangles
\* taken in ascending client x tile left to right: the first starts at local
\* x = 0 and each next one starts where the one before it ends.
C13_RowTilesLeftToRight ==
    (pc = "validated" /\ msg.horizontal) =>
        /\ monitorMode[1].rectWeston.x = 0
        /\ \A k \in 2..Len(monitorMode) :
              /\ monitorMode[k-1].x < monitorMode[k].x
              /\ monitorMode[k].rectWeston.x
                    = monitorMode[k-1].rectWeston.x + monitorMode[k-1].rectWeston.width

\* b lies right of a, edge to edge, and their vertical spans overlap
RightOf(a, b) ==
    /\ b.x = a.x + a.width
    /\ a.y < b.y + b.height
    /\ b.y < a.y + a.height

\* b lies below a, edge to edge, and their horizontal spans overlap
Below(a, b) ==
    /\ b.y = a.y + a.height
    /\ a.x < b.x + b.width
    /\ b.x < a.x + a.width

\* C14: in an accepted row or column (one primary, every scale at least 1) two
\* monitors that are adjacent in client space are adjacent in local space too:
\* their local rectangles share the edge and overlap on the other axis.
C14_AdjacencyKept ==
    (/\ pc = "validated"
     /\ msg.primaryCount = 1
     /\ msg.horizontal \/ msg.vertical
     /\ \A k \in 1..Len(monitorMode) : monitorMode[k].scale >= 1) =>
        \A i, j \in 1..Len(monitorMode) :
            /\ RightOf(Raw(monitorMode[i]), Raw(monitorMode[j]))
                  => RightOf(monitorMode[i].rectWeston, monitorMode[j].rectWeston)
            /\ Below(Raw(monitorMode[i]), Raw(monitorMode[j]))
                  => Below(monitorMode[i].rectWeston, monitorMode[j].rectWeston)

\* C15: a message of one monitor that is primary at client (0,0) passes
\* validation whatever heads exist, and after its commit Active holds exactly
\* one head, with local origin (0,0).
C15_SinglePrimaryCommitsOneHead ==
    (msg.count = 1 /\ msg.primaryCount = 1 /\ msg.primaryAtOrigin) =>
        /\ outcome # "rejected"
        /\ pc # "crashed"
        /\ pc = "aborted" => monitorMode # <<>>
        /\ outcome = "committed" =>
              /\ Len(head_list) = 1
              /\ head_list[1].regionWeston.x = 0
              /\ head_list[1].regionWeston.y = 0

\* clientScale rounded up to an integer
CeilScale(clientScale) == (clientScale + 99) \div 100

\* the points of a rectangle
Points(r) == (r.x .. r.x + r.width - 1) \X (r.y .. r.y + r.height - 1)

\* the client point p mapped to weston space and back through the output of head
RoundTrip(head, p) ==
    LET w == to_weston_coordinate(head_list, p[1], p[2])
    IN  to_client_coordinate(head, w.x, w.y)

\* C16 as stated: the round trip of every point of every Active head with an
\* output is off by less than the head's clientScale rounded up, on each axis.
C16_RoundTripBelowCeilScale ==
    \A k \in 1..Len(head_list) :
        head_list[k].output.bound =>
            \A p \in Points(head_list[k].regionClient) :
                LET c == RoundTrip(head_list[k], p)
                    bound == CeilScale(head_list[k].monitorMode.clientScale)
                IN  /\ Abs(c.x - p[1]) < bound
                    /\ Abs(c.y - p[2]) < bound

\* C16 amended: the round trip of every point of every Active head with an
\* output is found by to_weston_coordinate, is off by at most the head's
\* clientScale rounded up on each axis, never beyond the point, and is exact
\* when clientScale is 1.
C16_RoundTripWithinCeilScale ==
    \A k \in 1..Len(head_list) :
        head_list[k].output.bound =>
            \A p \in Points(head_list[k].regionClient) :
                LET c == RoundTrip(head_list[k], p)
                    bound == CeilScale(head_list[k].monitorMode.clientScale)
                IN  /\ to_weston_coordinate(head_list, p[1], p[2]).head # 0
                    /\ p[1] - c.x \in 0..bound
                    /\ p[2] - c.y \in 0..bound
                    /\ head_list[k].monitorMode.clientScale = 100 => c.x = p[1] /\ c.y = p[2]

\* an Active head of scale 1.75 with an output, right of another head, and a
\* point of it that comes back 2 to the left
C16_Witness ==
    \E k \in 1..Len(head_list) :
        /\ head_list[k].output.bound
        /\ head_list[k].monitorMode.clientScale = 175
        /\ head_list[k].monitorMode.rectWeston.x > 0
        /\ \E p \in Points(head_list[k].regionClient) :
              p[1] - RoundTrip(head_list[k], p).x = 2

\* C19: when rdp_head_create fails inside the loop of the handler, the handler
\* reports failure and Active holds the heads it held when the handler was
\* entered, with their indices and stored modes; the other two lists are empty.
C19_FailedCreateRestoresActive ==
    outcome = "failed" =>
        /\ success = "false"
        /\ Stored(head_list) = Stored(pre.head_list)
        /\ head_pending_list = <<>>
        /\ head_move_pending_list = <<>>

\* C20: a handler call that has moved Active to Pending returns only after
\* disp_end_monitor_layout_change: no call returns with a head still in Pending
\* or MovePending.
C20_BegunTransactionCommits ==
    (pc = "idle" /\ outcome \in {"failed", "committed"}) =>
        /\ outcome = "committed"
        /\ head_pending_list = <<>>
        /\ head_move_pending_list = <<>>

\* C17: the handler is given the messages one at a time in the order in which
\* they were sent; a call starts only when the transaction of every earlier
\* call has committed (nothing is left in Pending or MovePending), and the
\* heads of a transaction in progress are those Active when its call started.
C17_MessagesAppliedOneAtATimeInOrder ==
    /\ arrived = applied \o loop_task_list
    /\ pre.head_pending_list = <<>>
    /\ pre.head_move_pending_list = <<>>
    /\ pc = "layout_change" =>
          Indices(head_pending_list) \cup Indices(head_move_pending_list)
              \subseteq Indices(pre.head_list)

C21_CommitWithoutOnePrimaryIsFatal ==
    [][(/\ pc = "layout_change"
        /\ loop_i > Len(monitorMode)
        /\ pc' # "layout_change"
        /\ Cardinality(Primaries(head_move_pending_list))
              + Cardinality(Primaries(head_list)) # 1)
          => pc' = "aborted"]_vars

\* C22: no call fails assert(output) because the Pending head it reuses has no
\* output yet.
C22_UnboundHeadReusedWithoutAssert ==
    ~(pc = "aborted" /\ error = "assert(output)")

\* the indices of all heads linked into one of the three lists
LiveIndices ==
    Indices(head_list) \cup Indices(head_pending_list) \cup Indices(head_move_pending_list)

\* C23: no two live heads share an index, every index in use is below the
\* counter, the counter never decreases, a step adds at most the index the
\* counter had before the step (and then advances the counter by one), and a
\* head moved between lists or given another monitor keeps its index.
C23_HeadIndicesAssignedOnce ==
    [][/\ Cardinality(LiveIndices')
             = Len(head_list') + Len(head_pending_list') + Len(head_move_pending_list')
       /\ \A i \in LiveIndices' : i < head_index'
       /\ head_index' >= head_index
       /\ LiveIndices' \subseteq LiveIndices \cup {head_index}
       /\ head_index \in LiveIndices' => head_index' = head_index + 1
       /\ (pc = "layout_change" /\ pc' = "layout_change"
           /\ Len(head_move_pending_list') = Len(head_move_pending_list) + 1) =>
              /\ Indices(head_pending_list) \ Indices(head_pending_list')
                    = {head_move_pending_list'[1].index}
              /\ head_index' = head_index]_vars

\* a head made for the first message was reused for another monitor and a
\* second head was created after it
C23_Witness ==
    /\ outcome = "committed"
    /\ Indices(head_list) = {0, 1}
    /\ \E k \in 1..Len(head_list) :
          /\ head_list[k].index = 0
          /\ head_list[k].monitorMode.desktopScaleFactor = 200
    /\ \E k \in 1..Len(pre.head_list) :
          /\ pre.head_list[k].index = 0
          /\ pre.head_list[k].monitorMode.desktopScaleFactor = 100

\* the client points and sizes tried on to_weston_coordinate
ProbePoints == (-5..8) \X (-1..4)
ProbeSizes == {<<1, 1>>, <<3, 5>>}

\* C24: to_weston_coordinate on a client point that lies in no Active head's
\* client region returns no head (NULL) and x, y, width and height as given.
C24_PointOutsideEveryHeadUnchanged ==
    \A p \in ProbePoints : \A s \in ProbeSizes :
        (\A k \in 1..Len(head_list) : ~contains_point(head_list[k].regionClient, p[1], p[2]))
            => to_weston_coordinate_size(head_list, p[1], p[2], s[1], s[2])
                  = [head |-> 0, x |-> p[1], y |-> p[2], width |-> s[1], height |-> s[2]]

\* two Active heads of scale 1.5 and 1.25 with a point inside one of them and a
\* point right of both
C24_Witness ==
    /\ Len(head_list) = 2
    /\ \A k \in 1..2 : head_list[k].monitorMode.clientScale \in {125, 150}
    /\ to_weston_coordinate_size(head_list, 5, 1, 3, 5).head # 0
    /\ to_weston_coordinate_size(head_list, 8, 1, 3, 5).head = 0

\* the bounding box of the rectangles of a set that are not empty
BoundingBox(rects) == Extents({r \in rects : r.width > 0 /\ r.height > 0})

\* C25: after a committed message the client extents are the bounding box of
\* the client rectangles of the Active heads, and the weston extents that of
\* their weston rectangles: nothing of an earlier topology is left in them.
C25_ExtentsAreThoseOfActive ==
    outcome = "committed" =>
        /\ get_client_extents
              = BoundingBox({head_list[k].regionClient : k \in 1..Len(head_list)})
        /\ Extents(regionWestonHeads)
              = BoundingBox({head_list[k].regionWeston : k \in 1..Len(head_list)})

\* a commit after which the extents are smaller than before the call
C25_Witness ==
    /\ outcome = "committed"
    /\ Extents(pre.regionClientHeads).x2 > get_client_extents.x2
    /\ Extents(pre.regionWestonHeads).y2 > Extents(regionWestonHeads).y2

\* the desktopScaleFactor values tried on the scale resolution
ScaleFactors == {50, 100, 125, 149, 150, 175, 200, 250}

\* C26: the client scale is 1.0 when DPI support is disabled, whatever else is
\* set; else the debug override / 100 when that is not 0; else d / 100 in
\* fractional mode; else the integer (d + 50) div 100 in round-up mode; else
\* the integer d div 100; with DPI support disabled every validated monitor
\* carries scale 1.0.
C26_ClientScalePriority ==
    \A d \in ScaleFactors :
        LET s == disp_get_client_scale_from_monitor(config, Monitor(0, 0, TRUE, d))
            hi == config.enable_hi_dpi_support
            o == config.debug_desktop_scaling_factor
            fractional == config.enable_fractional_hi_dpi_support
            roundup == config.enable_fractional_hi_dpi_roundup
        IN  /\ ~hi => s = 100
            /\ (hi /\ o # 0) => s = o
            /\ (hi /\ o = 0 /\ fractional) => s = d
            /\ (hi /\ o = 0 /\ ~fractional /\ roundup) => s = 100 * ((d + 50) \div 100)
            /\ (hi /\ o = 0 /\ ~fractional /\ ~roundup) => s = 100 * (d \div 100)
            /\ (pc = "validated" /\ ~hi) =>
                  \A k \in 1..Len(monitorMode) : monitorMode[k].clientScale = 100

\* DPI support is disabled, a debug override is set, and a monitor of 200% has
\* been validated with scale 1.0
C26_Witness ==
    /\ ~config.enable_hi_dpi_support
    /\ config.debug_desktop_scaling_factor # 0
    /\ pc = "validated"
    /\ \E k \in 1..Len(monitorMode) :
          /\ monitorMode[k].desktopScaleFactor = 200
          /\ monitorMode[k].clientScale = 100

\* C28: when a monitor is given a Pending head, a head of the same width,
\* height and output scale is taken, unflagged, if Pending has one; else a
\* head at the same client position, flagged for a mode update, if Pending
\* has one; else the first head of Pending, flagged.
C28_BestFitPriority ==
    [][(/\ pc = "layout_change"
        /\ pc' = "layout_change"
        /\ Len(head_move_pending_list') = Len(head_move_pending_list) + 1) =>
          LET mode == monitorMode[loop_i]
              size == {k \in 1..Len(head_pending_list) :
                          SizeMatch(head_pending_list[k], mode)}
              position == {k \in 1..Len(head_pending_list) :
                              PositionMatch(head_pending_list[k], mode)}
              picked == CHOOSE k \in 1..Len(head_pending_list) :
                           head_pending_list[k].index = head_move_pending_list'[1].index
              flagged == calls' # calls
          IN  /\ size # {} => (picked \in size /\ ~flagged)
              /\ (size = {} /\ position # {}) => (picked \in position /\ flagged)
              /\ (size = {} /\ position = {}) => (picked = 1 /\ flagged)]_vars

\* C29: a head is created only while Pending is empty, heads are destroyed
\* only by the commit and are those left in Pending, and a committed call that
\* started with m Active heads and had n monitors has created max(0, n - m)
\* heads and destroyed max(0, m - n).
C29_CreatedAndDestroyedCounts ==
    [][/\ head_index' # head_index => (pc = "layout_change" /\ head_pending_list = <<>>)
       /\ compositor_head_list \ compositor_head_list' # {} =>
             /\ pc = "layout_change"
             /\ loop_i > Len(monitorMode)
             /\ compositor_head_list \ compositor_head_list' = Indices(head_pending_list)
       /\ outcome' = "committed" =>
             LET m == Len(pre'.head_list)
                 n == msg'.count
             IN  /\ Cardinality(Indices(head_list') \ Indices(pre'.head_list))
                       = (IF n > m THEN n - m ELSE 0)
                 /\ Cardinality(Indices(pre'.head_list) \ Indices(head_list'))
                       = (IF m > n THEN m - n ELSE 0)]_vars

\* a committed message of one monitor after two heads were Active: one head
\* was destroyed, none created
C29_Witness ==
    /\ outcome = "committed"
    /\ msg.count = 1
    /\ Len(pre.head_list) = 2
    /\ head_index = 2
    /\ Cardinality(compositor_head_list) = 1

\* C30: the commit calls weston_output_move(x, y of rectWeston) for exactly the
\* heads that have an output, the heads left in Pending are gone from the
\* compositor, and whenever the handler is not running every Active head that
\* has an output, bound before or after the commit, has it at its rectWeston.
C30_OutputsPlacedAtRectWeston ==
    /\ outcome = "committed" =>
          /\ \A k \in 1..Len(head_list) :
                head_list[k].output.bound <=>
                    \E c \in 1..Len(calls) :
                        calls[c] = Call("weston_output_move", head_list[k].index,
                                        head_list[k].monitorMode.rectWeston.x,
                                        head_list[k].monitorMode.rectWeston.y)
          /\ \A c \in 1..Len(calls) :
                calls[c][1] = "weston_output_move" => calls[c][2] \in Indices(head_list)
          /\ (Indices(pre.head_list) \ Indices(head_list)) \cap compositor_head_list = {}
    /\ pc = "idle" =>
          \A k \in 1..Len(head_list) :
              head_list[k].output.bound =>
                  /\ head_list[k].output.x = head_list[k].monitorMode.rectWeston.x
                  /\ head_list[k].output.y = head_list[k].monitorMode.rectWeston.y

\* a commit that moved the output of a reused head to a new place and left a
\* new head without an output
C30_Witness ==
    /\ outcome = "committed"
    /\ \E k \in 1..Len(head_list) : ~head_list[k].output.bound
    /\ \E k \in 1..Len(head_list) : \E j \in 1..Len(pre.head_list) :
          /\ head_list[k].index = pre.head_list[j].index
          /\ head_list[k].output.bound
          /\ head_list[k].output.x # pre.head_list[j].output.x

\* the arrangement of the message by the reference definition: a row, else a
\* column, else complex
ReferenceArrangement ==
    IF msg.horizontal THEN "Horizontal" ELSE IF msg.vertical THEN "Vertical" ELSE "Complex"

\* C27: for every message of two or more monitors that passes the primary
\* checks, in whatever order it lists them, validation finds the arrangement
\* of the reference definition.
C27_ArrangementAgreesWithReference ==
    (msg.count >= 2 /\ outcome # "rejected") => msg.arrangement = ReferenceArrangement

\* the calls a step has added to the record
NewCalls == SubSeq(calls', Len(calls) + 1, Len(calls'))

\* the Pending head a step has moved to MovePending
Picked ==
    head_pending_list[CHOOSE k \in 1..Len(head_pending_list) :
                         head_pending_list[k].index = head_move_pending_list'[1].index]

\* a step of the handler's loop that reuses a Pending head
ReuseStep ==
    /\ pc = "layout_change"
    /\ pc' = "layout_change"
    /\ Len(head_move_pending_list') = Len(head_move_pending_list) + 1

\* C31: a head reused by its size (same primary flag, width, height and output
\* scale) gets no compositor call; any other reused head, whose output is
\* bound, gets disable, set-scale(new scale), enable if and only if the scale
\* of its output differs from the new output scale, and then set-mode with the
\* client width and height of the monitor (followed by set-transform).
C31_UpdateCallsInOrder ==
    [][ReuseStep =>
          LET mode == monitorMode[loop_i]
              i == Picked.index
              bySize == /\ Picked.monitorMode.is_primary = mode.is_primary
                        /\ SizeMatch(Picked, mode)
              rescale == << Call("weston_output_disable", i, 0, 0),
                            Call("weston_output_set_scale", i, mode.scale, 0),
                            Call("weston_output_enable", i, 0, 0) >>
              setMode == Call("weston_output_mode_set_native", i, mode.width, mode.height)
              transform == Call("weston_output_set_transform", i, 0, 0)
          IN  /\ Picked.output.bound
              /\ bySize => NewCalls = <<>>
              /\ (~bySize /\ Picked.output.scale # mode.scale)
                    => NewCalls = rescale \o <<setMode, transform>>
              /\ (~bySize /\ Picked.output.scale = mode.scale)
                    => NewCalls = <<setMode, transform>>]_vars

\* a head kept at its place was given a monitor of another output scale: its
\* output was disabled, rescaled, enabled and then given the new mode
C31_Witness ==
    /\ pc = "layout_change"
    /\ Len(calls) >= 4
    /\ calls[1][1] = "weston_output_disable"
    /\ calls[2][1] = "weston_output_set_scale"
    /\ calls[3][1] = "weston_output_enable"
    /\ calls[4][1] = "weston_output_mode_set_native"
    /\ head_move_pending_list # <<>>
    /\ head_move_pending_list[1].output.scale = 2

\* q is the quotient a div s (a >= 0), said without dividing: there is no
\* such q when s = 0
IsQuotient(q, a, s) == q * s <= a /\ a < (q + 1) * s

\* the sum of the local widths (heights) of the first n monitors of the array
RECURSIVE LocalWidths(_)
LocalWidths(n) == IF n = 0 THEN 0 ELSE LocalWidths(n - 1) + monitorMode[n].rectWeston.width

RECURSIVE LocalHeights(_)
LocalHeights(n) == IF n = 0 THEN 0 ELSE LocalHeights(n - 1) + monitorMode[n].rectWeston.height

\* C32: with scaling in use, the monitors of a row stand in ascending x and
\* each has local width = width div scale, local height = height div scale,
\* local x = the sum of the local widths before it and local y =
\* |upperLeft.y - y| div scale; a column is the same with x and y, width and
\* height exchanged, in ascending y.
C32_ScaledRowAndColumnProjection ==
    (pc = "validated" /\ msg.scalingUsed) =>
        LET ulx == MinOrZero({monitorMode[k].x : k \in 1..Len(monitorMode)})
            uly == MinOrZero({monitorMode[k].y : k \in 1..Len(monitorMode)})
        IN  \A k \in 1..Len(monitorMode) :
              LET m == monitorMode[k]
              IN  /\ msg.arrangement \in {"Horizontal", "Vertical"} =>
                        /\ IsQuotient(m.rectWeston.width, m.width, m.scale)
                        /\ IsQuotient(m.rectWeston.height, m.height, m.scale)
                  /\ msg.arrangement = "Horizontal" =>
                        /\ k > 1 => monitorMode[k-1].x < m.x
                        /\ m.rectWeston.x = LocalWidths(k - 1)
                        /\ IsQuotient(m.rectWeston.y, Abs(uly - m.y), m.scale)
                  /\ msg.arrangement = "Vertical" =>
                        /\ k > 1 => monitorMode[k-1].y < m.y
                        /\ m.rectWeston.y = LocalHeights(k - 1)
                        /\ IsQuotient(m.rectWeston.x, Abs(ulx - m.x), m.scale)

\* the assertions of disp_monitor_validate_and_compute_layout on the sorted
\* array and on the projected rectangles
ValidationAsserts ==
    {"upperLeftX == monitorMode[0].monitorDef.x",
     "upperLeftY == monitorMode[0].monitorDef.y",
     "rectWeston >= 0"}

\* C33: no message that passes the primary checks fails an assertion of the
\* validation: after sorting the first monitor is at upperLeft, and every
\* projected rectangle has x >= 0 and y >= 0.
C33_NoValidationAssertFails ==
    /\ ~(pc = "aborted" /\ error \in ValidationAsserts)
    /\ pc = "validated" =>
          \A k \in 1..Len(monitorMode) :
              monitorMode[k].rectWeston.x >= 0 /\ monitorMode[k].rectWeston.y >= 0

\* C34: after a committed message Active has as many heads as the message has
\* monitors, and the stored modes of the heads are, one for one, the modes
\* resolved for the message.
C34_ActiveHoldsTheResolvedModes ==
    outcome = "committed" =>
        /\ Len(head_list) = msg.count
        /\ Len(monitorMode) = msg.count
        /\ \E f \in Orders(Len(monitorMode)) :
              \A k \in 1..Len(monitorMode) : head_list[k].monitorMode = monitorMode[f[k]]

\* a commit of two monitors, one on a head reused for a changed mode and one
\* on a head kept by the fast match
C34_Witness ==
    /\ outcome = "committed"
    /\ msg.count = 2
    /\ Cardinality(doneIndex) = 1
    /\ Indices(head_list) = Indices(pre.head_list)
    /\ Stored(head_list) # Stored(pre.head_list)

\* the monitors of the handler's array resolved so far: those of the fast
\* match and those the loop has passed
Resolved == doneIndex \cup {i \in 1..Len(monitorMode) : i < loop_i}

\* C35: inside a transaction the loop never takes a monitor of the fast match,
\* every monitor resolved so far has a head of its own that stores its mode,
\* and no head is in two lists or twice in one, also for monitors with
\* identical modes.
C35_EachMonitorResolvedOnce ==
    pc = "layout_change" =>
        LET heads == head_move_pending_list \o head_list
        IN  /\ loop_i \notin doneIndex
            /\ Len(heads) = Cardinality(Resolved)
            /\ Cardinality(Indices(heads)) = Len(heads)
            /\ Indices(heads) \cap Indices(head_pending_list) = {}
            /\ Cardinality(Indices(head_pending_list)) = Len(head_pending_list)
            /\ \E f \in [1..Len(heads) -> Resolved] :
                  /\ \A a, b \in 1..Len(heads) : a # b => f[a] # f[b]
                  /\ \A k \in 1..Len(heads) : heads[k].monitorMode = monitorMode[f[k]]

\* two monitors with identical modes: the first was resolved by the fast match,
\* the second by the loop
C35_Witness ==
    /\ pc = "layout_change"
    /\ Len(monitorMode) = 2
    /\ monitorMode[1] = monitorMode[2]
    /\ doneIndex = {1}
    /\ loop_i = 3

\* C36: every client point of the client region of an Active head is mapped
\* by to_weston_coordinate to a point inside the local rectangle of that head.
C36_LocalPointInsideLocalRect ==
    \A k \in 1..Len(head_list) :
        \A p \in Points(head_list[k].regionClient) :
            LET w == to_weston_coordinate(head_list, p[1], p[2])
            IN  /\ w.head # 0
                /\ contains_point(head_list[k].monitorMode.rectWeston, w.x, w.y)

\* the regions of a head are the rectangles of its stored mode
RegionsMatchMode(head) ==
    /\ head.regionClient = Rect(head.monitorMode.x, head.monitorMode.y,
                                head.monitorMode.width, head.monitorMode.height)
    /\ head.regionWeston = head.monitorMode.rectWeston

\* C37: every head, in whichever list it is, has regionClient equal to the
\* client rectangle of its stored mode and regionWeston equal to the stored
\* rectWeston; so has every Active head after a commit, and a head reused for
\* another monitor carries that monitor's mode and both its regions.
C37_RegionsFollowStoredMode ==
    /\ \A k \in 1..Len(head_list) : RegionsMatchMode(head_list[k])
    /\ \A k \in 1..Len(head_pending_list) : RegionsMatchMode(head_pending_list[k])
    /\ \A k \in 1..Len(head_move_pending_list) : RegionsMatchMode(head_move_pending_list[k])
    /\ (pc = "layout_change" /\ head_move_pending_list # <<>>) =>
          \E i \in Resolved : head_move_pending_list[1].monitorMode = monitorMode[i]

\* a commit in which a head of the earlier topology was reused for a monitor
\* at another place and of another local size
C37_Witness ==
    /\ outcome = "committed"
    /\ \E k \in 1..Len(head_list) : \E j \in 1..Len(pre.head_list) :
          /\ head_list[k].index = pre.head_list[j].index
          /\ head_list[k].regionClient.x # pre.head_list[j].regionClient.x
          /\ head_list[k].regionWeston.width # pre.head_list[j].regionWeston.width

\* the output bound to a head has the scale and the local size of the head's mode
OutputMatchesMode(head) ==
    head.output.bound =>
        /\ head.output.scale = head.monitorMode.scale
        /\ head.output.width = head.monitorMode.rectWeston.width
        /\ head.output.height = head.monitorMode.rectWeston.height

\* C38: when the outputs of the heads that were Active at the call matched
\* their heads' modes, then after the commit every Active head that has an
\* output has it at the head's scale and with the width and height of the
\* head's rectWeston.
C38_OutputsMatchModesAfterCommit ==
    (/\ outcome = "committed"
     /\ \A j \in 1..Len(pre.head_list) : OutputMatchesMode(pre.head_list[j])) =>
        \A k \in 1..Len(head_list) : OutputMatchesMode(head_list[k])

\* a commit that kept a head at its place for a monitor of another scale: its
\* output went from scale 1 to scale 2
C38_Witness ==
    /\ outcome = "committed"
    /\ \A j \in 1..Len(pre.head_list) : OutputMatchesMode(pre.head_list[j])
    /\ \E k \in 1..Len(head_list) : \E j \in 1..Len(pre.head_list) :
          /\ head_list[k].index = pre.head_list[j].index
          /\ pre.head_list[j].output.bound
          /\ pre.head_list[j].output.scale = 1
          /\ head_list[k].output.scale = 2

====
